---- MODULE Spec2Model ----
(***************************************************************************)
(* The order service of glamora-backend: createOrderIntoDB, updateOrder    *)
(* and the paginated listings, as concurrent request handlers over one     *)
(* database.  Every `await` of a handler is a step of its own, so the      *)
(* queries of concurrent requests interleave as they do on the server.     *)
(***************************************************************************)
EXTENDS Integers, Sequences, FiniteSets, TLC

(* ------------------------------ bounds --------------------------------- *)

\* Line items of one order request.
MaxItems == 2

\* Rows of the order table when a listing is asked for.
MaxRows == 2

\* Largest page and largest limit a listing is asked for.
MaxPage == 2
MaxLimit == 2

\* Requests of one behaviour; each is served by a handler of its own.
Procs == {"r1", "r2", "r3"}

\* The requests that create orders; the one that lists them and the one that
\* updates an order meanwhile.
Creators == {"r1", "r2"}
Listers == {"r1"}
Writers == {"r2"}

\* Values Date.now()/Math.random() can give generateTransactionId.
TxnIds == {"TXN-1", "TXN-2"}

\* subTotal values of a request.
Amounts == {10, 20}

(* --------------------------- database tables --------------------------- *)

\* JavaScript's undefined, where a string is expected.
Undefined == "undefined"

\* Result of a findUnique that matches no row.
Null == [kind |-> "null"]

\* Nothing returned or thrown yet.
NoResult == [kind |-> "none"]

\* Rows of the customer table (no operation of the order service writes it).
Customers ==
  { [customerId |-> "c1", email |-> "c1@mail"],
    [customerId |-> "c2", email |-> "c2@mail"] }

\* Emails a JWT can carry: a customer's and one that is no customer's.
Emails == {"c1@mail", "nobody@mail"}

\* Rows of the shop table, by shopId; the blacklist flag is the state.
Shops == {"s1", "s2"}

\* Rows of the vendor table, and the vendor each shop belongs to.
Vendors ==
  { [vendorId |-> "v1", email |-> "v1@mail"],
    [vendorId |-> "v2", email |-> "v2@mail"] }

shopVendorId == [s \in Shops |-> IF s = "s1" THEN "v1" ELSE "v2"]

\* Emails a vendor's JWT can carry: a vendor's and one that is no vendor's.
VendorEmails == {"v1@mail", "nobody@mail"}

\* The members of the ORDER_STATUS column an order row can hold: the keys of
\* statusSequence and one value that is no key of it.
StatusValues == {"PENDING", "ONGOING", "DELIVERED", "UNKNOWN"}

\* Status a new row gets: order.create passes none, the column default applies.
DefaultStatus == "PENDING"

VARIABLES
  orders,         \* the order table: sequence of rows, the id is the index
  isBlackListed,  \* shop.isBlackListed, by shopId
  payments,       \* the calls made to initiatePayment, in order
  pc,             \* per handler: the await it is at
  req,            \* per handler: the arguments of the call it serves
  loc,            \* per handler: its local constants
  result          \* per handler: what its call returned or threw

vars == <<orders, isBlackListed, payments, pc, req, loc, result>>

OrderIds == 1..Len(orders)

(* ------------------------------ helpers -------------------------------- *)

\* ApiError(status, message); a plain Error carries no status code (0 here).
ApiError(status, message) ==
  [kind |-> "error", status |-> status, message |-> message]

\* Mutant: the lookup drops its where clause and takes the first customer.
customerFindUniqueAny(email) ==
  CHOOSE c \in Customers : c.customerId = "c1"

\* prisma.customer.findUnique({ where: { email } })
customerFindUnique(email) ==
  IF \E c \in Customers : c.email = email
  THEN CHOOSE c \in Customers : c.email = email
  ELSE Null

\* prisma.shop.findMany({ where: { isBlackListed: true } }).map(shopId)
blacklistedShopIds == {s \in Shops : isBlackListed[s]}

\* Mutant: the last blacklisted line item instead of the first.
blacklistedInOrderLast(items, ids) ==
  IF \E i \in 1..Len(items) : items[i].shopId \in ids
  THEN LET last == CHOOSE i \in 1..Len(items) :
                     /\ items[i].shopId \in ids
                     /\ \A j \in (i + 1)..Len(items) : items[j].shopId \notin ids
       IN items[last]
  ELSE Null

\* orderInfo.items.find(item => ids.includes(item.shopId)): the first match.
blacklistedInOrder(items, ids) ==
  IF \E i \in 1..Len(items) : items[i].shopId \in ids
  THEN LET first == CHOOSE i \in 1..Len(items) :
                      /\ items[i].shopId \in ids
                      /\ \A j \in 1..(i - 1) : items[j].shopId \notin ids
       IN items[first]
  ELSE Null

\* Mutant: the table sends PENDING straight to DELIVERED.
statusSequenceSkipsOngoing ==
  [s \in {"PENDING", "ONGOING", "DELIVERED"} |-> "DELIVERED"]

\* The transition table of updateOrder.
statusSequence ==
  [s \in {"PENDING", "ONGOING", "DELIVERED"} |->
     CASE s = "PENDING" -> "ONGOING"
       [] s = "ONGOING" -> "DELIVERED"
       [] s = "DELIVERED" -> "DELIVERED"]

\* Mutant: a status that is no key falls back to PENDING instead of failing.
nextStatusOfOrPending(currentStatus) ==
  IF currentStatus \in {"PENDING", "ONGOING", "DELIVERED"}
  THEN (CASE currentStatus = "PENDING" -> "ONGOING"
          [] currentStatus = "ONGOING" -> "DELIVERED"
          [] currentStatus = "DELIVERED" -> "DELIVERED")
  ELSE "PENDING"

\* statusSequence[currentStatus]: undefined for a status that is no key.
nextStatusOf(currentStatus) ==
  IF currentStatus \in DOMAIN statusSequence
  THEN statusSequence[currentStatus]
  ELSE Undefined

\* The row order.create inserts and returns.
newOrder(orderInfo, customerData, txn) ==
  [ id            |-> Len(orders) + 1,
    customerId    |-> customerData.customerId,
    subTotal      |-> orderInfo.subTotal,
    transactionId |-> txn,
    paymentStatus |-> "PENDING",
    status        |-> DefaultStatus,
    items         |-> orderInfo.items ]

\* Mutant: the id of the newest order instead of the id of the order created.
paymentArgsLatest(orderData, customerData) ==
  [ orderData    |-> orderData.subTotal,
    txn          |-> orderData.transactionId,
    customerData |-> customerData,
    orderId      |-> Len(orders) ]

\* The argument of initiatePayment.
paymentArgs(orderData, customerData) ==
  [ orderData    |-> orderData.subTotal,
    txn          |-> orderData.transactionId,
    customerData |-> customerData,
    orderId      |-> orderData.id ]

(* --------------------------- requests ---------------------------------- *)

ItemLists ==
  UNION { [1..n -> [shopId : Shops]] : n \in 0..MaxItems }

CreateOrderRequests ==
  [ op : {"createOrder"}, userEmail : Emails, items : ItemLists,
    subTotal : Amounts ]

\* An id of a stored order, or one more than the last: no order's id.
UpdateOrderRequests ==
  [ op : {"updateOrder"}, id : 1..(Len(orders) + 1) ]

\* Request r arrives and its handler starts at the first await.
Begin(p, r, at) ==
  /\ pc[p] = "idle"
  /\ req' = [req EXCEPT ![p] = r]
  /\ pc' = [pc EXCEPT ![p] = at]
  /\ UNCHANGED <<orders, isBlackListed, payments, loc, result>>

\* The handler returns v or throws it.
Finish(p, v) ==
  /\ result' = [result EXCEPT ![p] = v]
  /\ pc' = [pc EXCEPT ![p] = "done"]

(* --------------------------- createOrderIntoDB ------------------------- *)

CallCreateOrder(p) ==
  \E r \in CreateOrderRequests : Begin(p, r, "co_customer")

\* await prisma.customer.findUnique; 404 when there is none.
CreateOrderFindCustomer(p) ==
  /\ pc[p] = "co_customer"
  /\ LET customerData == customerFindUnique(req[p].userEmail) IN
       IF customerData = Null
       THEN /\ Finish(p, ApiError(404, "Customer not found for payment"))
            /\ UNCHANGED loc
       ELSE /\ loc' = [loc EXCEPT ![p] = [customerData |-> customerData]]
            /\ pc' = [pc EXCEPT ![p] = "co_blacklist"]
            /\ UNCHANGED result
  /\ UNCHANGED <<orders, isBlackListed, payments, req>>

\* await prisma.shop.findMany, then the check of the items against it.
CreateOrderCheckBlacklist(p) ==
  /\ pc[p] = "co_blacklist"
  /\ LET ids   == blacklistedShopIds
         found == blacklistedInOrder(req[p].items, ids) IN
       IF found # Null
       THEN Finish(p, ApiError(400, <<"Order cannot be placed as shop",
                                      found.shopId, "is blacklisted.">>))
       ELSE /\ pc' = [pc EXCEPT ![p] = "co_create"]
            /\ UNCHANGED result
  /\ UNCHANGED <<orders, isBlackListed, payments, req, loc>>

\* await prisma.order.create: the order and its items in one insert.
CreateOrderInsert(p) ==
  /\ pc[p] = "co_create"
  /\ \E txn \in TxnIds :
       LET orderData == newOrder(req[p], loc[p].customerData, txn) IN
         /\ orders' = Append(orders, orderData)
         /\ loc' = [loc EXCEPT ![p] =
                      [customerData |-> loc[p].customerData,
                       orderData |-> orderData]]
  /\ pc' = [pc EXCEPT ![p] = "co_pay"]
  /\ UNCHANGED <<isBlackListed, payments, req, result>>

\* await initiatePayment resolves: the order is returned with the payLink.
CreateOrderPaymentOk(p) ==
  /\ pc[p] = "co_pay"
  /\ payments' = Append(payments, paymentArgs(loc[p].orderData, loc[p].customerData))
  /\ Finish(p, [kind |-> "order", order |-> loc[p].orderData,
                payLink |-> "payment_url"])
  /\ UNCHANGED <<orders, isBlackListed, req, loc>>

\* Mutant: the failure is caught and the order is marked as failed.
CreateOrderPaymentFailsCompensates(p) ==
  /\ pc[p] = "co_pay"
  /\ payments' = Append(payments, [ orderData    |-> loc[p].orderData.subTotal,
                                     txn          |-> loc[p].orderData.transactionId,
                                     customerData |-> loc[p].customerData,
                                     orderId      |-> loc[p].orderData.id ])
  /\ orders' = [orders EXCEPT ![loc[p].orderData.id].paymentStatus = "FAILED"]
  /\ result' = [result EXCEPT ![p] =
                  [kind |-> "error", status |-> 0,
                   message |-> "initiatePayment rejected"]]
  /\ pc' = [pc EXCEPT ![p] = "done"]
  /\ UNCHANGED <<isBlackListed, req, loc>>

\* await initiatePayment rejects: nothing catches it, the caller gets the error.
CreateOrderPaymentFails(p) ==
  /\ pc[p] = "co_pay"
  /\ payments' = Append(payments, paymentArgs(loc[p].orderData, loc[p].customerData))
  /\ Finish(p, ApiError(0, "initiatePayment rejected"))
  /\ UNCHANGED <<orders, isBlackListed, req, loc>>

(* ------------------------------ updateOrder ---------------------------- *)

CallUpdateOrder(p) ==
  \E r \in UpdateOrderRequests : Begin(p, r, "uo_find")

\* await prisma.order.findUnique, then the lookup of the next status.
UpdateOrderFind(p) ==
  /\ pc[p] = "uo_find"
  /\ IF req[p].id \notin OrderIds
     THEN /\ Finish(p, ApiError(0, "Order not found"))
          /\ UNCHANGED loc
     ELSE LET order      == orders[req[p].id]
              nextStatus == nextStatusOf(order.status) IN
            /\ loc' = [loc EXCEPT ![p] =
                         [order |-> order, nextStatus |-> nextStatus]]
            /\ IF nextStatus = Undefined
               THEN Finish(p, ApiError(0, "Invalid current status"))
               ELSE /\ pc' = [pc EXCEPT ![p] = "uo_update"]
                    /\ UNCHANGED result
  /\ UNCHANGED <<orders, isBlackListed, payments, req>>

\* await prisma.order.update({ where: { id }, data: { status: nextStatus } })
UpdateOrderWrite(p) ==
  /\ pc[p] = "uo_update"
  /\ orders' = [orders EXCEPT ![req[p].id].status = loc[p].nextStatus]
  /\ Finish(p, [kind |-> "order", order |-> orders'[req[p].id]])
  /\ UNCHANGED <<isBlackListed, payments, req, loc>>

(* ------------------------------ listings ------------------------------ *)

\* The filter fields a listing is asked with, and the values they take ("" is
\* a falsy value); searchTerm is split off and never used.
FilterFields == {"status", "customerId"}
FilterValues ==
  [ field \in FilterFields |->
      IF field = "status" THEN {"", "PENDING"} ELSE {"c2"} ]

Params ==
  UNION { { f \in [D -> UNION {FilterValues[d] : d \in D}] :
              \A d \in D : f[d] \in FilterValues[d] } :
          D \in SUBSET FilterFields }

PaginationOptions == [ page : 1..MaxPage, limit : 1..MaxLimit ]

\* paginationHelper.calculatePagination
calculatePagination(paginationData) ==
  [ page  |-> paginationData.page,
    limit |-> paginationData.limit,
    skip  |-> (paginationData.page - 1) * paginationData.limit ]

\* The AND of { [field]: { equals: value } } over the truthy filter values.
filterCondition(o, filterData) ==
  \A field \in DOMAIN filterData :
    filterData[field] # "" => o[field] = filterData[field]

\* { customerId: userData?.customerId }: Prisma leaves out a condition whose
\* value is undefined, and then every row satisfies it.
customerCondition(o, customerId) ==
  customerId = Undefined \/ o.customerId = customerId

\* { items: { some: { shop: { vendorId } } } }
vendorCondition(o, vendorId) ==
  \E i \in 1..Len(o.items) : shopVendorId[o.items[i].shopId] = vendorId

\* { status: { not: "DELIVERED" } }
pendingCondition(o) == o.status # "DELIVERED"

\* whereConditons of the three listings, as a predicate on a row.
where(w, o) ==
  CASE w.of = "customer" ->
         filterCondition(o, w.filterData) /\ customerCondition(o, w.customerId)
    [] w.of = "vendor" ->
         filterCondition(o, w.filterData) /\ vendorCondition(o, w.vendorId)
    [] w.of = "pending" -> pendingCondition(o)

matching(w) == {i \in OrderIds : where(w, orders[i])}

\* prisma.order.findMany({ where, skip, take, orderBy: { createdAt: "desc" } }):
\* the k-th row returned is the one with skip + k - 1 newer rows before it.
findMany(w, skip, take) ==
  LET ids  == matching(w)
      left == IF Cardinality(ids) > skip THEN Cardinality(ids) - skip ELSE 0
      n    == IF left < take THEN left ELSE take
  IN [ k \in 1..n |->
         orders[CHOOSE i \in ids :
                  Cardinality({j \in ids : j > i}) = skip + k - 1] ]

\* prisma.order.count({ where })
count(w) == Cardinality(matching(w))

\* prisma.order.count()
countAll == Len(orders)

\* { meta: { page, limit, total, totalPage: Math.ceil(total / limit) }, data }
listResult(pg, total, data) ==
  [ kind |-> "list",
    meta |-> [ page |-> pg.page, limit |-> pg.limit, total |-> total,
               totalPage |-> (total + pg.limit - 1) \div pg.limit ],
    data |-> data ]

(* getSingleCustomerAllOrder *)

CallGetSingleCustomerAllOrder(p) ==
  \E r \in [ op : {"getSingleCustomerAllOrder"}, userEmail : Emails,
             paginationData : PaginationOptions, params : Params ] :
    Begin(p, r, "cl_customer")

\* await prisma.customer.findUnique, then the where condition is built.
CustomerListFindCustomer(p) ==
  /\ pc[p] = "cl_customer"
  /\ LET userData == customerFindUnique(req[p].userEmail) IN
       loc' = [loc EXCEPT ![p] =
                 [ whereConditons |->
                     [ of |-> "customer", filterData |-> req[p].params,
                       customerId |-> IF userData = Null THEN Undefined
                                      ELSE userData.customerId ] ]]
  /\ pc' = [pc EXCEPT ![p] = "cl_find"]
  /\ UNCHANGED <<orders, isBlackListed, payments, req, result>>

\* await prisma.order.findMany
CustomerListFindMany(p) ==
  /\ pc[p] = "cl_find"
  /\ LET pg == calculatePagination(req[p].paginationData) IN
       loc' = [loc EXCEPT ![p] =
                 [ whereConditons |-> loc[p].whereConditons,
                   result |-> findMany(loc[p].whereConditons, pg.skip, pg.limit) ]]
  /\ pc' = [pc EXCEPT ![p] = "cl_count"]
  /\ UNCHANGED <<orders, isBlackListed, payments, req, result>>

\* Mutant: the count is taken with the where condition of the listing.
CustomerListCountFiltered(p) ==
  /\ pc[p] = "cl_count"
  /\ result' = [result EXCEPT ![p] =
       [ kind |-> "list",
         meta |-> [ page  |-> req[p].paginationData.page,
                    limit |-> req[p].paginationData.limit,
                    total |-> Cardinality({i \in 1..Len(orders) :
                                 /\ \A f \in DOMAIN req[p].params :
                                      req[p].params[f] # "" =>
                                        orders[i][f] = req[p].params[f]
                                 /\ orders[i].customerId =
                                      loc[p].whereConditons.customerId}),
                    totalPage |-> 0 ],
         data |-> loc[p].result ]]
  /\ pc' = [pc EXCEPT ![p] = "done"]
  /\ UNCHANGED <<orders, isBlackListed, payments, req, loc>>

\* await prisma.order.count(), with no where.
CustomerListCount(p) ==
  /\ pc[p] = "cl_count"
  /\ Finish(p, listResult(calculatePagination(req[p].paginationData),
                          countAll, loc[p].result))
  /\ UNCHANGED <<orders, isBlackListed, payments, req, loc>>

(* getPendingOrder *)

CallGetPendingOrder(p) ==
  \E r \in [ op : {"getPendingOrder"}, paginationData : PaginationOptions ] :
    Begin(p, r, "po_find")

PendingFindMany(p) ==
  /\ pc[p] = "po_find"
  /\ LET pg == calculatePagination(req[p].paginationData) IN
       loc' = [loc EXCEPT ![p] =
                 [ result |-> findMany([of |-> "pending"], pg.skip, pg.limit) ]]
  /\ pc' = [pc EXCEPT ![p] = "po_count"]
  /\ UNCHANGED <<orders, isBlackListed, payments, req, result>>

PendingCount(p) ==
  /\ pc[p] = "po_count"
  /\ Finish(p, listResult(calculatePagination(req[p].paginationData),
                          count([of |-> "pending"]), loc[p].result))
  /\ UNCHANGED <<orders, isBlackListed, payments, req, loc>>

(* getSpecificShopOrder *)

CallGetSpecificShopOrder(p) ==
  \E r \in [ op : {"getSpecificShopOrder"}, userEmail : VendorEmails,
             paginationData : PaginationOptions, params : Params ] :
    Begin(p, r, "so_vendor")

\* await prisma.vendor.findUniqueOrThrow, then the where condition is built.
ShopListFindVendor(p) ==
  /\ pc[p] = "so_vendor"
  /\ IF \E v \in Vendors : v.email = req[p].userEmail
     THEN LET vendor == CHOOSE v \in Vendors : v.email = req[p].userEmail IN
            /\ loc' = [loc EXCEPT ![p] =
                         [ whereConditons |->
                             [ of |-> "vendor", filterData |-> req[p].params,
                               vendorId |-> vendor.vendorId ] ]]
            /\ pc' = [pc EXCEPT ![p] = "so_find"]
            /\ UNCHANGED result
     ELSE /\ Finish(p, ApiError(0, "No Vendor found"))
          /\ UNCHANGED loc
  /\ UNCHANGED <<orders, isBlackListed, payments, req>>

ShopListFindMany(p) ==
  /\ pc[p] = "so_find"
  /\ LET pg == calculatePagination(req[p].paginationData) IN
       loc' = [loc EXCEPT ![p] =
                 [ whereConditons |-> loc[p].whereConditons,
                   orders |-> findMany(loc[p].whereConditons, pg.skip, pg.limit) ]]
  /\ pc' = [pc EXCEPT ![p] = "so_count"]
  /\ UNCHANGED <<orders, isBlackListed, payments, req, result>>

ShopListCount(p) ==
  /\ pc[p] = "so_count"
  /\ Finish(p, listResult(calculatePagination(req[p].paginationData),
                          count(loc[p].whereConditons), loc[p].orders))
  /\ UNCHANGED <<orders, isBlackListed, payments, req, loc>>

(* ------------------------------ the shops ------------------------------ *)

\* Another module's request sets or clears a shop's blacklist flag.
SetBlackListed(s, b) ==
  /\ isBlackListed[s] # b
  /\ isBlackListed' = [isBlackListed EXCEPT ![s] = b]
  /\ UNCHANGED <<orders, payments, pc, req, loc, result>>

(* ---------------------------- specifications --------------------------- *)

\* An order row as order.create leaves it, with the status it has by now.
Row(id, customerId, status, shopId) ==
  [ id |-> id, customerId |-> customerId, subTotal |-> 10,
    transactionId |-> "TXN-1", paymentStatus |-> "PENDING",
    status |-> status, items |-> << [shopId |-> shopId] >> ]

\* No request is being served.
Quiet ==
  /\ payments = <<>>
  /\ pc = [p \in Procs |-> "idle"]
  /\ req = [p \in Procs |-> Null]
  /\ loc = [p \in Procs |-> Null]
  /\ result = [p \in Procs |-> NoResult]

\* Order creation racing with the blacklisting of shops.
Init ==
  /\ orders = << Row(1, "c2", "ONGOING", "s2") >>
  /\ isBlackListed \in [Shops -> BOOLEAN]
  /\ Quiet

Next ==
  \/ \E p \in Creators : CallCreateOrder(p)
  \/ \E p \in Creators : CreateOrderFindCustomer(p)
  \/ \E p \in Creators : CreateOrderCheckBlacklist(p)
  \/ \E p \in Creators : CreateOrderInsert(p)
  \/ \E p \in Creators : CreateOrderPaymentOk(p)
  \/ \E p \in Creators : CreateOrderPaymentFails(p)
  \/ \E s \in Shops, b \in BOOLEAN : SetBlackListed(s, b)

Spec == Init /\ [][Next]_vars

\* Concurrent updateOrder requests on a table of one or two orders.
InitUpdate ==
  /\ orders \in
       { << Row(1, "c1", s, "s1") >> : s \in StatusValues } \cup
       { << Row(1, "c1", s, "s1"), Row(2, "c2", t, "s2") >> :
           s \in StatusValues, t \in StatusValues }
  /\ isBlackListed = [s \in Shops |-> FALSE]
  /\ Quiet

NextUpdate ==
  \/ \E p \in Procs : CallUpdateOrder(p)
  \/ \E p \in Procs : UpdateOrderFind(p)
  \/ \E p \in Procs : UpdateOrderWrite(p)

SpecUpdate == InitUpdate /\ [][NextUpdate]_vars

\* The rows an order table can hold when a listing is asked for.
InitialRows ==
  { [customerId |-> "c1", status |-> "PENDING",   shopId |-> "s1"],
    [customerId |-> "c2", status |-> "PENDING",   shopId |-> "s2"],
    [customerId |-> "c1", status |-> "ONGOING",   shopId |-> "s2"],
    [customerId |-> "c2", status |-> "DELIVERED", shopId |-> "s1"] }

\* A listing racing with an updateOrder request, on a table of up to MaxRows orders.
InitList ==
  /\ orders \in
       { [ i \in 1..Len(f) |->
             Row(i, f[i].customerId, f[i].status, f[i].shopId) ] :
           f \in UNION { [1..n -> InitialRows] : n \in 0..MaxRows } }
  /\ isBlackListed = [s \in Shops |-> FALSE]
  /\ Quiet

NextList ==
  \/ \E p \in Listers : CallGetSingleCustomerAllOrder(p)
  \/ \E p \in Listers : CustomerListFindCustomer(p)
  \/ \E p \in Listers : CustomerListFindMany(p)
  \/ \E p \in Listers : CustomerListCount(p)
  \/ \E p \in Listers : CallGetPendingOrder(p)
  \/ \E p \in Listers : PendingFindMany(p)
  \/ \E p \in Listers : PendingCount(p)
  \/ \E p \in Listers : CallGetSpecificShopOrder(p)
  \/ \E p \in Listers : ShopListFindVendor(p)
  \/ \E p \in Listers : ShopListFindMany(p)
  \/ \E p \in Listers : ShopListCount(p)
  \/ \E p \in Writers : CallUpdateOrder(p)
  \/ \E p \in Writers : UpdateOrderFind(p)
  \/ \E p \in Writers : UpdateOrderWrite(p)

SpecList == InitList /\ [][NextList]_vars

(* ------------------------------- claims -------------------------------- *)

\* Handler p leaves the await `at` in this step.
Leaves(p, at) == pc[p] = at /\ pc'[p] # at

\* The customer the email belongs to exists.
HasCustomer(email) == \E c \in Customers : c.email = email

\* C1: the stored status of every order only moves forward along
\* PENDING -> ONGOING -> DELIVERED, whatever updateOrder calls interleave: no
\* step takes an order from ONGOING back to PENDING, and no step takes an order
\* out of DELIVERED.
C1_StatusOnlyMovesForward ==
  [][ \A i \in OrderIds :
        /\ orders[i].status = "ONGOING" => orders'[i].status # "PENDING"
        /\ orders[i].status = "DELIVERED" => orders'[i].status = "DELIVERED"
    ]_vars

\* C2: the insert of createOrderIntoDB never stores an order with a line item
\* whose shop is blacklisted at the moment of the insert.
C2_NoBlacklistedShopAtInsert ==
  [][ Len(orders') > Len(orders) =>
        LET o == orders'[Len(orders')] IN
          \A k \in 1..Len(o.items) : ~ isBlackListed[o.items[k].shopId]
    ]_vars

\* The status updateOrder is to store for an order found with status s.
C3_Forward(s) ==
  CASE s = "PENDING" -> "ONGOING"
    [] s = "ONGOING" -> "DELIVERED"
    [] s = "DELIVERED" -> "DELIVERED"

\* C3: when updateOrder writes and the row is still as it was read (no other
\* request came in between), the status becomes ONGOING from PENDING, DELIVERED
\* from ONGOING, and stays DELIVERED; every other field of the row and every
\* other row is left as it was, and the row is what the call returns.
C3_UpdateAdvancesOneStep ==
  [][ \A p \in Procs :
        (Leaves(p, "uo_update") /\ orders[req[p].id] = loc[p].order) =>
          LET id == req[p].id IN
            /\ orders' = [orders EXCEPT
                            ![id].status = C3_Forward(orders[id].status)]
            /\ result'[p] = [kind |-> "order", order |-> orders'[id]]
            /\ pc'[p] = "done"
    ]_vars

\* An updateOrder call found its order DELIVERED and left it DELIVERED, with
\* another order in the table.
C3_Witness ==
  \E p \in Procs :
    /\ pc[p] = "done"
    /\ result[p].kind = "order"
    /\ loc[p].order.status = "DELIVERED"
    /\ orders[req[p].id].status = "DELIVERED"
    /\ Len(orders) = 2

\* The first line item, in request order, whose shop is blacklisted now.
C4_FirstBlacklisted(items) ==
  items[CHOOSE i \in 1..Len(items) :
          /\ isBlackListed[items[i].shopId]
          /\ \A j \in 1..(i - 1) : ~ isBlackListed[items[j].shopId]]

\* The calls that were rejected before the insert.
C4_Rejected == {p \in Procs : pc[p] = "done" /\ result[p].kind = "error"
                                /\ result[p].status \in {400, 404}}

\* C4: when the blacklist is read and a line item of the request references a
\* blacklisted shop, the call ends with a 400 error that names the shop of the
\* first such line item, and the step stores no order and calls no payment; a
\* call that ended so has created no order, and every stored order beyond the
\* initial one and every payment call belongs to a call that was not rejected.
C4_BlacklistedShopRejects ==
  /\ [][ \A p \in Procs :
           ( /\ Leaves(p, "co_blacklist")
             /\ \E i \in 1..Len(req[p].items) :
                  isBlackListed[req[p].items[i].shopId] ) =>
             /\ pc'[p] = "done"
             /\ result'[p].kind = "error"
             /\ result'[p].status = 400
             /\ result'[p].message[2] = C4_FirstBlacklisted(req[p].items).shopId
             /\ orders' = orders
             /\ payments' = payments
       ]_vars
  /\ [](\A p \in C4_Rejected : "orderData" \notin DOMAIN loc[p])
  /\ [](Len(orders) - 1 <=
          Cardinality({p \in Procs \ C4_Rejected :
                         pc[p] \in {"co_pay", "done"}}))
  /\ [](Len(payments) <=
          Cardinality({p \in Procs \ C4_Rejected : pc[p] = "done"}))

\* A request with two line items of different shops, both blacklisted, was
\* rejected naming the shop of the first.
C4_Witness ==
  \E p \in Procs :
    /\ pc[p] = "done"
    /\ result[p].kind = "error"
    /\ result[p].status = 400
    /\ Len(req[p].items) = 2
    /\ req[p].items[1].shopId # req[p].items[2].shopId
    /\ \A k \in 1..2 : isBlackListed[req[p].items[k].shopId]
    /\ result[p].message[2] = req[p].items[1].shopId

\* C5: when no customer has the requesting user's email, the customer lookup
\* ends the call with a 404 error, stores no order and calls no payment,
\* whatever the line items are; only the call of a customer gets past the
\* lookup or assigns a local.
C5_MissingCustomerIs404 ==
  /\ [][ \A p \in Procs :
           (Leaves(p, "co_customer") /\ ~ HasCustomer(req[p].userEmail)) =>
             /\ pc'[p] = "done"
             /\ result'[p].kind = "error"
             /\ result'[p].status = 404
             /\ orders' = orders
             /\ payments' = payments
       ]_vars
  /\ [](\A p \in Procs :
          (pc[p] \in {"co_blacklist", "co_create", "co_pay"} \/ loc[p] # Null)
            => HasCustomer(req[p].userEmail))

\* A request of no customer, with a line item of a blacklisted shop, got 404.
C5_Witness ==
  \E p \in Procs :
    /\ pc[p] = "done"
    /\ result[p].kind = "error"
    /\ result[p].status = 404
    /\ ~ HasCustomer(req[p].userEmail)
    /\ \E k \in 1..Len(req[p].items) : isBlackListed[req[p].items[k].shopId]

\* C6: when updateOrder looks its order up and there is none with that id, or
\* the status of the order is none of PENDING, ONGOING and DELIVERED, the call
\* ends with a plain error (no status code) and writes nothing.
C6_UpdateFailsWithoutWriting ==
  [][ \A p \in Procs :
        ( /\ Leaves(p, "uo_find")
          /\ \/ req[p].id \notin OrderIds
             \/ orders[req[p].id].status
                  \notin {"PENDING", "ONGOING", "DELIVERED"} ) =>
          /\ pc'[p] = "done"
          /\ result'[p].kind = "error"
          /\ result'[p].status = 0
          /\ orders' = orders
    ]_vars

\* One call failed on an id of no order, another on an order whose status is
\* no key of the table.
C6_Witness ==
  \E p, q \in Procs :
    /\ pc[p] = "done" /\ result[p].kind = "error"
    /\ req[p].id \notin OrderIds
    /\ pc[q] = "done" /\ result[q].kind = "error"
    /\ req[q].id \in OrderIds
    /\ orders[req[q].id].status = "UNKNOWN"

\* C7: every order getSingleCustomerAllOrder returns belongs to the customer
\* whose email is the requesting user's; when there is no such customer, no
\* order is returned.
C7_ListingReturnsOwnOrdersOnly ==
  \A p \in Procs :
    (pc[p] = "done" /\ result[p].kind = "list"
       /\ req[p].op = "getSingleCustomerAllOrder") =>
      \A k \in 1..Len(result[p].data) :
        \E c \in Customers :
          /\ c.email = req[p].userEmail
          /\ result[p].data[k].customerId = c.customerId

\* The rows a listing of page pg returns when M is the set of ids it selects:
\* rows of the table with ids in M, as many as the page holds.
C8_PageOf(data, M, pg) ==
  LET skip == (pg.page - 1) * pg.limit
      left == IF Cardinality(M) > skip THEN Cardinality(M) - skip ELSE 0
  IN /\ Len(data) = IF left < pg.limit THEN left ELSE pg.limit
     /\ \A k \in 1..Len(data) :
          data[k].id \in M /\ data[k] = orders[data[k].id]

\* The truthy field filters of a request hold of row o.
C8_Filtered(o, params) ==
  \A f \in DOMAIN params : params[f] = "" \/ o[f] = params[f]

\* Ids of the orders not DELIVERED.
C8_Pending == {i \in OrderIds : orders[i].status # "DELIVERED"}

\* Ids of the filtered orders with an item of a shop of the vendor of p.
C8_OfVendor(p) ==
  {i \in OrderIds :
     /\ C8_Filtered(orders[i], req[p].params)
     /\ \E k \in 1..Len(orders[i].items), v \in Vendors :
          /\ v.email = req[p].userEmail
          /\ shopVendorId[orders[i].items[k].shopId] = v.vendorId}

\* C8: the total of getSingleCustomerAllOrder is the number of all orders in
\* the table when it is counted, whoever asks and whatever the filters are;
\* getPendingOrder and getSpecificShopOrder select their rows with a condition
\* and count, as total, the orders that satisfy that same condition.
C8_TotalOfListings ==
  [][ \A p \in Procs :
        /\ Leaves(p, "cl_count") =>
             /\ pc'[p] = "done"
             /\ result'[p].meta.total = Len(orders)
             /\ result'[p].data = loc[p].result
        /\ Leaves(p, "po_find") =>
             C8_PageOf(loc'[p].result, C8_Pending, req[p].paginationData)
        /\ Leaves(p, "po_count") =>
             /\ result'[p].meta.total = Cardinality(C8_Pending)
             /\ result'[p].data = loc[p].result
        /\ Leaves(p, "so_find") =>
             C8_PageOf(loc'[p].orders, C8_OfVendor(p), req[p].paginationData)
        /\ Leaves(p, "so_count") =>
             /\ result'[p].meta.total = Cardinality(C8_OfVendor(p))
             /\ result'[p].data = loc[p].orders
    ]_vars

\* A customer's listing reports a total larger than the number of orders the
\* customer has.
C8_Witness ==
  \E p \in Procs :
    /\ pc[p] = "done"
    /\ result[p].kind = "list"
    /\ req[p].op = "getSingleCustomerAllOrder"
    /\ HasCustomer(req[p].userEmail)
    /\ result[p].meta.total >
         Cardinality({i \in OrderIds :
                        \E c \in Customers :
                          /\ c.email = req[p].userEmail
                          /\ orders[i].customerId = c.customerId})

\* C9: initiatePayment is called one call at a time, by a handler that has
\* inserted its order, with the subTotal, the transactionId and the id of that
\* stored order; no order is paid for twice; and a result with a payLink is
\* returned only in the step in which the call for its order is made and
\* succeeds.
C9_PaymentAfterInsert ==
  /\ [][ /\ payments' # payments =>
              /\ Len(payments') = Len(payments) + 1
              /\ SubSeq(payments', 1, Len(payments)) = payments
              /\ LET a == payments'[Len(payments')] IN
                   /\ a.orderId \in OrderIds
                   /\ a.orderData = orders[a.orderId].subTotal
                   /\ a.txn = orders[a.orderId].transactionId
                   /\ \E p \in Procs :
                        /\ Leaves(p, "co_pay")
                        /\ loc[p].orderData.id = a.orderId
                        /\ loc[p].orderData = orders[a.orderId]
                        /\ a.customerData.customerId = orders[a.orderId].customerId
         /\ \A p \in Procs :
              (result'[p] # result[p] /\ "payLink" \in DOMAIN result'[p]) =>
                /\ Len(payments') = Len(payments) + 1
                /\ payments'[Len(payments')].orderId = result'[p].order.id
                /\ result'[p].order = orders[result'[p].order.id]
       ]_vars
  /\ [](\A j, k \in 1..Len(payments) :
          payments[j].orderId = payments[k].orderId => j = k)

\* Two concurrent calls have each inserted an order and been given a payLink.
C9_Witness ==
  /\ Len(payments) = 2
  /\ \A p \in Creators :
       /\ pc[p] = "done"
       /\ "payLink" \in DOMAIN result[p]
       /\ \E k \in 1..2 : payments[k].orderId = result[p].order.id

\* The calls whose payment initiation failed.
C10_PaymentFailed ==
  {p \in Procs : pc[p] = "done" /\ result[p].kind = "error"
                   /\ result[p].status \notin {400, 404}}

\* C10: after a failed payment initiation the caller has an error and no
\* payLink, and the order the call inserted stays in the table as inserted,
\* with its items and paymentStatus PENDING.
C10_FailedPaymentKeepsOrder ==
  \A p \in C10_PaymentFailed :
    /\ "payLink" \notin DOMAIN result[p]
    /\ loc[p].orderData.id \in OrderIds
    /\ orders[loc[p].orderData.id] = loc[p].orderData
    /\ orders[loc[p].orderData.id].paymentStatus = "PENDING"
    /\ orders[loc[p].orderData.id].items = req[p].items

\* A call got an error from the payment initiation and its order is stored.
C10_Witness ==
  \E p \in C10_PaymentFailed :
    /\ Len(req[p].items) > 0
    /\ \E i \in OrderIds : orders[i] = loc[p].orderData

====
